---- MODULE Spec2Model ----
(***************************************************************************)
(* Model of the TCEQ water buyer scraper (src/src/main.rs).                *)
(*                                                                         *)
(* Strings are sequences of characters, so that trimming, whitespace       *)
(* collapsing and delimiter splitting are computed character by character. *)
(* A parsed page is a tree of nodes: text nodes and elements with a tag    *)
(* and a sequence of children, traversed in document order (pre-order) as  *)
(* scraper's select() and text() do.                                       *)
(***************************************************************************)
EXTENDS Integers, Sequences, FiniteSets, TLC

(***************************************************************************)
(* Characters and strings                                                  *)
(***************************************************************************)

\* The characters the regex class \s and str::trim treat as whitespace.
Whitespace == {" ", "\n"}

IsWs(c) == c \in Whitespace

\* t.trim().is_empty()
IsBlank(s) == \A i \in 1..Len(s) : IsWs(s[i])

RECURSIVE TrimStart(_)
TrimStart(s) ==
    IF s # <<>> /\ IsWs(Head(s)) THEN TrimStart(Tail(s)) ELSE s

RECURSIVE TrimEnd(_)
TrimEnd(s) ==
    IF s # <<>> /\ IsWs(s[Len(s)]) THEN TrimEnd(SubSeq(s, 1, Len(s) - 1)) ELSE s

\* str::trim
Trim(s) == TrimEnd(TrimStart(s))

\* whitespace_regex.replace_all(s, " ") with whitespace_regex = \s+ :
\* every maximal run of whitespace becomes one space.
RECURSIVE CollapseWs(_)
CollapseWs(s) ==
    IF s = <<>> THEN <<>>
    ELSE IF IsWs(Head(s)) THEN <<" ">> \o CollapseWs(TrimStart(s))
    ELSE <<Head(s)>> \o CollapseWs(Tail(s))

StartsWith(s, p) == Len(s) >= Len(p) /\ SubSeq(s, 1, Len(p)) = p

\* The alternatives of column_delimiter_regex, in the order of the pattern
\* " - |sells to|\/".
Delimiters ==
    << <<" ", "-", " ">>,
       <<"s", "e", "l", "l", "s", " ", "t", "o">>,
       <<"/">> >>

\* The delimiter matching at the start of s (leftmost alternative first),
\* or the empty string when none does.
DelimAt(s) ==
    IF StartsWith(s, Delimiters[1]) THEN Delimiters[1]
    ELSE IF StartsWith(s, Delimiters[2]) THEN Delimiters[2]
    ELSE IF StartsWith(s, Delimiters[3]) THEN Delimiters[3]
    ELSE <<>>

\* column_delimiter_regex.is_match(s): a delimiter matches somewhere in s.
RECURSIVE IsMatch(_)
IsMatch(s) == s # <<>> /\ (DelimAt(s) # <<>> \/ IsMatch(Tail(s)))

\* column_delimiter_regex.split(s): the pieces between successive
\* non-overlapping matches, scanning from the left; cur is the piece being
\* accumulated.
RECURSIVE SplitFrom(_, _)
SplitFrom(s, cur) ==
    IF s = <<>> THEN <<cur>>
    ELSE LET d == DelimAt(s) IN
         IF d # <<>>
         THEN <<cur>> \o SplitFrom(SubSeq(s, Len(d) + 1, Len(s)), <<>>)
         ELSE SplitFrom(Tail(s), Append(cur, Head(s)))

Split(s) == SplitFrom(s, <<>>)

NonBlank(ss) == SelectSeq(ss, LAMBDA t : ~IsBlank(t))

RECURSIVE MapTrim(_)
MapTrim(ss) ==
    IF ss = <<>> THEN <<>> ELSE <<Trim(Head(ss))>> \o MapTrim(Tail(ss))

(***************************************************************************)
(* The parsed document                                                     *)
(***************************************************************************)

TextNode(s) == [tag |-> "text", txt |-> s, kids |-> <<>>]
Element(tag, kids) == [tag |-> tag, txt |-> <<>>, kids |-> kids]

\* ElementRef::text(): the descendant text nodes in document order.
RECURSIVE Texts(_)
RECURSIVE TextsOfSeq(_)
Texts(n) == IF n.tag = "text" THEN <<n.txt>> ELSE TextsOfSeq(n.kids)
TextsOfSeq(ns) ==
    IF ns = <<>> THEN <<>> ELSE Texts(Head(ns)) \o TextsOfSeq(Tail(ns))

\* ElementRef::select("tbody tr td"): every descendant td, in document order,
\* nested ones included (the element itself is skipped).
RECURSIVE SelectCells(_)
RECURSIVE SelectCellsOfSeq(_)
SelectCells(n) == SelectCellsOfSeq(n.kids)
SelectCellsOfSeq(ns) ==
    IF ns = <<>> THEN <<>>
    ELSE LET h == Head(ns) IN
         (IF h.tag = "td" THEN <<h>> ELSE <<>>)
         \o SelectCells(h) \o SelectCellsOfSeq(Tail(ns))

\* Html::select("body table tbody tr td table"): every table with a td
\* ancestor, in document order; inTd says whether n lies inside a td.
RECURSIVE SelectTables(_, _)
RECURSIVE SelectTablesOfSeq(_, _)
SelectTables(n, inTd) == SelectTablesOfSeq(n.kids, inTd \/ n.tag = "td")
SelectTablesOfSeq(ns, inTd) ==
    IF ns = <<>> THEN <<>>
    ELSE LET h == Head(ns) IN
         (IF h.tag = "table" /\ inTd THEN <<h>> ELSE <<>>)
         \o SelectTables(h, inTd) \o SelectTablesOfSeq(Tail(ns), inTd)

NoTable == [tag |-> "none", txt |-> <<>>, kids |-> <<>>]
\* Option<String>
None == [some |-> FALSE, val |-> <<>>]
Some(v) == [some |-> TRUE, val |-> v]

\* TableMatches with the first text compared as it stands, not trimmed.
TableMatches_untrimmed(name, el) ==
    LET ts == NonBlank(Texts(el)) IN
    ts # <<>> /\ Head(ts) = name

\* get_table_by_name: the first selected table whose first non-blank text,
\* trimmed, equals name.
TableMatches(name, el) ==
    LET ts == NonBlank(Texts(el)) IN
    ts # <<>> /\ Trim(Head(ts)) = name

get_table_by_name(name, dom) ==
    LET found == SelectSeq(SelectTables(dom, FALSE),
                           LAMBDA el : TableMatches(name, el)) IN
    IF found = <<>> THEN NoTable ELSE Head(found)

\* The stream of texts get_value_from_header scans: for every selected cell
\* in turn, its non-blank texts, each trimmed and then whitespace-collapsed.
RECURSIVE ScanStream(_)
ScanStream(cells) ==
    IF cells = <<>> THEN <<>>
    ELSE LET ts == NonBlank(Texts(Head(cells))) IN
         [i \in 1..Len(ts) |-> CollapseWs(Trim(ts[i]))] \o ScanStream(Tail(cells))

\* The loop of get_value_from_header over the stream, found_header being
\* the flag.
RECURSIVE ScanHeader(_, _, _)
ScanHeader(stream, header_name, found_header) ==
    IF stream = <<>> THEN None
    ELSE IF found_header THEN Some(Head(stream))
    ELSE ScanHeader(Tail(stream), header_name, Head(stream) = header_name)

get_value_from_header(header_name, table) ==
    ScanHeader(ScanStream(SelectCells(table)), header_name, FALSE)

(***************************************************************************)
(* Row tokenizing (main, the loop over rows)                               *)
(***************************************************************************)

\* PushText with the pieces of a split pushed as they are, not trimmed.
PushText_untrimmed(row_data, txt) ==
    LET relationship_text == CollapseWs(txt) IN
    IF IsMatch(relationship_text)
    THEN row_data \o NonBlank(Split(relationship_text))
    ELSE Append(row_data, Trim(relationship_text))

\* One text of a row: collapsed, then split on the delimiters when one
\* matches, else pushed whole.
PushText(row_data, txt) ==
    LET relationship_text == CollapseWs(txt) IN
    IF IsMatch(relationship_text)
    THEN row_data \o MapTrim(NonBlank(Split(relationship_text)))
    ELSE Append(row_data, Trim(relationship_text))

RECURSIVE PushTexts(_, _)
PushTexts(row_data, txts) ==
    IF txts = <<>> THEN row_data
    ELSE PushTexts(PushText(row_data, Head(txts)), Tail(txts))

\* row_data as collected from one selected cell.
RowData(row) == PushTexts(<<>>, NonBlank(Texts(row)))

\* while row_data.len() < 5 { row_data.push("") }
RECURSIVE PadRow(_)
PadRow(row_data) ==
    IF Len(row_data) < 5 THEN PadRow(Append(row_data, <<>>)) ELSE row_data

(***************************************************************************)
(* The persistence gateway                                                 *)
(***************************************************************************)

\* The ways a call on the store can fail for reasons of its own:
\* Connection::open fails, Connection::prepare fails, the statement fails
\* while it executes.
FaultKinds == {"open", "prepare", "execute"}

EmptyDb == [systems |-> {}, relationships |-> {}]

\* The natural key of the systems table is the system identifier.
SystemExists(db, ws_number) ==
    \E row \in db.systems : row.water_system_no = ws_number

\* The natural key of the relationships table is the (seller, buyer) pair.
RelationshipExists(db, seller, buyer) ==
    \E row \in db.relationships : row.seller = seller /\ row.buyer = buyer

\* The outcome of an insert: panic (an unwrap failed), or the Result
\* returned together with the store as the call leaves it.
Panicked(db, at) == [panic |-> TRUE, at |-> at, res |-> "none", db |-> db]
Returned(db, res) == [panic |-> FALSE, at |-> "none", res |-> res, db |-> db]

\* insert_water_detail with the statement run by execute() in place of
\* insert(): a duplicate, which inserts no row, is reported as Ok.
insert_water_detail_execute(db, water_detail, fault) ==
    IF fault = "open" THEN Panicked(db, "open_unwrap")
    ELSE IF fault = "prepare" THEN Panicked(db, "prepare_unwrap")
    ELSE IF fault = "execute" THEN Returned(db, "Err")
    ELSE IF SystemExists(db, water_detail.ws_number) THEN Returned(db, "Ok")
    ELSE Returned([db EXCEPT !.systems = @ \cup
                      {[water_system_no |-> water_detail.ws_number,
                        water_system_name |-> water_detail.name,
                        state_code |-> water_detail.st_code,
                        is_no |-> water_detail.is_number]}], "Ok")

insert_water_detail(db, water_detail, fault) ==
    IF fault = "open" THEN Panicked(db, "open_unwrap")
    ELSE IF fault = "prepare" THEN Panicked(db, "prepare_unwrap")
    ELSE IF fault = "execute" THEN Returned(db, "Err")
    ELSE IF SystemExists(db, water_detail.ws_number) THEN Returned(db, "Err")
    ELSE Returned([db EXCEPT !.systems = @ \cup
                      {[water_system_no |-> water_detail.ws_number,
                        water_system_name |-> water_detail.name,
                        state_code |-> water_detail.st_code,
                        is_no |-> water_detail.is_number]}], "Ok")

insert_buyer_seller_relationship(db, relationship, fault) ==
    IF fault = "open" THEN Panicked(db, "open_unwrap")
    ELSE IF fault = "prepare" THEN Panicked(db, "prepare_unwrap")
    ELSE IF fault = "execute" THEN Returned(db, "Err")
    ELSE IF RelationshipExists(db, relationship.seller, relationship.buyer)
    THEN Returned(db, "Err")
    ELSE Returned([db EXCEPT !.relationships = @ \cup
                      {[seller |-> relationship.seller,
                        buyer |-> relationship.buyer,
                        population |-> relationship.population,
                        availability |-> relationship.availability]}], "Ok")

(***************************************************************************)
(* Entities built by main                                                  *)
(***************************************************************************)

\* A row of the input csv read into a WaterDetail: the name is scraped later.
InputDetail(ws_number, st_code, is_number) ==
    [ws_number |-> ws_number, st_code |-> st_code,
     is_number |-> Some(is_number), name |-> None]

\* BuildRelationship with the seller taken from the seed instead of the row.
BuildRelationship_seller_from_seed(detail, row_data) ==
    [seller |-> detail.ws_number,
     buyer_name |-> row_data[2],
     buyer |-> row_data[3],
     population |-> row_data[4],
     availability |-> row_data[5]]

\* BuyerSellerRelationship { seller: row_data[0], buyer_name: row_data[1], ... }
BuildRelationship(detail, row_data) ==
    [seller |-> row_data[1],
     buyer_name |-> row_data[2],
     buyer |-> row_data[3],
     population |-> row_data[4],
     availability |-> row_data[5]]

\* The padded row_data of the selected rows that yield a field, in order.
RECURSIVE FieldLists(_)
FieldLists(rows) ==
    IF rows = <<>> THEN <<>>
    ELSE (IF RowData(Head(rows)) # <<>> THEN <<PadRow(RowData(Head(rows)))>> ELSE <<>>)
         \o FieldLists(Tail(rows))

\* The relationships pushed for the selected rows, in order: a row with no
\* field pushes nothing, the others are padded to five fields.
RECURSIVE BuildRelationships(_, _)
BuildRelationships(detail, rows) ==
    IF rows = <<>> THEN <<>>
    ELSE LET row_data == RowData(Head(rows)) IN
         (IF Len(row_data) # 0
          THEN <<BuildRelationship(detail, PadRow(row_data))>>
          ELSE <<>>)
         \o BuildRelationships(detail, Tail(rows))

\* r.buyer[..2] panics when the buyer is shorter than two bytes.
CanSlice2(s) == Len(s) >= 2

\* WaterDetail { ws_number: r.buyer, st_code: r.buyer[..2], name: Some(r.buyer_name), is_number: None }
SynthesizedDetail(r) ==
    [ws_number |-> r.buyer,
     st_code |-> SubSeq(r.buyer, 1, 2),
     name |-> Some(r.buyer_name),
     is_number |-> None]

\* The key under which the seed's own detail enters parsed_water_details.
RootKey(detail) == detail.name.val

\* HashMap::insert
MapInsert(map, key, value) == (key :> value) @@ map

(***************************************************************************)
(* Strings of the program and of the pages                                 *)
(***************************************************************************)

sInfoCaption == <<"W", "a", "t", "e", "r", " ", "S", "y", "s", "t", "e", "m", " ", "D", "e", "t", "a", "i", "l", " ", "I", "n", "f", "o", "r", "m", "a", "t", "i", "o", "n">>
sNameLabel == <<"W", "a", "t", "e", "r", " ", "S", "y", "s", "t", "e", "m", " ", "N", "a", "m", "e", ":">>
sBuyersCaption == <<"B", "u", "y", "e", "r", "s", " ", "o", "f", " ", "W", "a", "t", "e", "r">>

sTX == <<"T", "X">>
sTX1 == <<"T", "X", "1">>
sTX2 == <<"T", "X", "2">>
sTX3 == <<"T", "X", "3">>
sTX4 == <<"T", "X", "4">>
sTX5 == <<"T", "X", "5">>
sTX9 == <<"T", "X", "9">>

(***************************************************************************)
(* Pages served for the seeds                                              *)
(***************************************************************************)

Th(s) == Element("th", <<TextNode(s)>>)
Td(s) == Element("td", <<TextNode(s)>>)

\* The layout of a detail page: the data tables sit in a cell of an outer
\* table of the body.
Page(tables) == Element("body", <<Element("table", <<Element("td", tables)>>)>>)

InfoTable(name) ==
    Element("table",
            <<Th(<<"\n", " ">> \o sInfoCaption \o <<"\n">>), Td(sNameLabel), Td(name)>>)

BuyersTable(rows) ==
    Element("table", <<Th(sBuyersCaption \o <<" ">>)>> \o rows)

\* TX1 sells to B (TX2).
Page1 ==
    Page(<<InfoTable(<<"A">>),
           BuyersTable(<<Td(<<"T", "X", "1", " ", "s", "e", "l", "l", "s", " ", "t", "o", " ", "B", "/", "T", "X", "2", "/", "5", "/", "Y">>)>>)>>)

\* TX2 sells to A (TX1) with the availability left out, a second row for the
\* same buyer whose seller text is another system, and a row naming TX2
\* itself as the buyer.
Page2 ==
    Page(<<InfoTable(<<"C">>),
           BuyersTable(<<Td(<<"T", "X", "2", " ", "s", "e", "l", "l", "s", "\n", "t", "o", " ", "A", "/", "T", "X", "1", "/", "7">>),
                         Td(<<"T", "X", "9", " ", "s", "e", "l", "l", "s", " ", "t", "o", " ", "A", "/", "T", "X", "1", "/", "8", "/", "N">>),
                         Td(<<"T", "X", "2", " ", "s", "e", "l", "l", "s", " ", "t", "o", " ", "C", "/", "T", "X", "2", "/", "1", "/", "Y">>)>>)>>)

\* No "Water System Detail Information" table.
Page3 ==
    Page(<<BuyersTable(<<Td(<<"T", "X", "3", " ", "s", "e", "l", "l", "s", " ", "t", "o", " ", "B", "/", "T", "X", "2", "/", "5", "/", "Y">>)>>)>>)

\* No "Buyers of Water" table.
Page4 == Page(<<InfoTable(<<"D">>)>>)

\* A row from which only two fields are recovered.
Page5 ==
    Page(<<InfoTable(<<"E">>),
           BuyersTable(<<Td(<<"T", "X", "5", " ", "s", "e", "l", "l", "s", " ", "t", "o", " ", "F">>)>>)>>)

\* The seed rows an input csv may hold.
SeedRows ==
    { InputDetail(sTX1, sTX, <<"1">>),
      InputDetail(sTX2, sTX, <<"2">>),
      InputDetail(sTX3, sTX, <<"3">>),
      InputDetail(sTX4, sTX, <<"4">>),
      InputDetail(sTX5, sTX, <<"5">>) }

\* The page the site serves at detail.url(): fixed per system.
PageOf(detail) ==
    CASE detail.ws_number = sTX1 -> Page1
      [] detail.ws_number = sTX2 -> Page2
      [] detail.ws_number = sTX3 -> Page3
      [] detail.ws_number = sTX4 -> Page4
      [] OTHER -> Page5

\* The status codes of the responses the site gives: the two ends of
\* 200..299 and their neighbours.
StatusCodes == {199, 200, 299, 300}

\* No request was sent yet.
NoResponse == [kind |-> "none", status_code |-> 0]

\* What minreq::get(&url).send() can come back with: Err(e), or Ok(response)
\* with a status code.
Responses ==
    {[kind |-> "Err", status_code |-> 0]}
        \cup {[kind |-> "Ok", status_code |-> c] : c \in StatusCodes}

\* A variant that takes only the statuses from 400 on as failures.
StatusNotOk_from_400(status_code) == status_code >= 400

\* The response status was not OK.
StatusNotOk(status_code) == status_code < 200 \/ status_code >= 300

(***************************************************************************)
(* Bounds                                                                  *)
(***************************************************************************)

\* Rows of the input csv.
MaxSeeds == 3
\* Store failures injected in one run.
MaxFaults == 1

(***************************************************************************)
(* State                                                                   *)
(***************************************************************************)

VARIABLES
    input,                  \* the rows of the input csv, in file order
    input_water_details,    \* main's vector of seeds (names filled as scraped)
    idx,                    \* position of the crawl loop (1-based)
    pc,                     \* position inside the iteration
    dom,                    \* the parsed page of the current seed
    parsed_water_details,   \* the pass-local map of details
    relationships,          \* the relationships built from the buyers table
    row_datas,              \* the padded row_data each of them was built from
    pos,                    \* position of the loop over relationships
    db,                     \* the store (water_buyer_relationships.db3)
    calls,                  \* the insert calls of the current pass, with results
    panicAt,                \* where the run panicked ("none" while it runs)
    faults,                 \* store failures injected so far
    run,                    \* 1: the run on the csv as given, 2: a run on a reordered csv
    prevDb,                 \* the store the first run ended with
    dbBefore,               \* the store as the current iteration found it
    passed,                 \* seeds whose page was already processed in this run
    clean,                  \* no fetch failed and no store failure was injected
    arg,                    \* the caption or label a lookup is applied to
    result,                 \* what the lookup returned
    requests,               \* the requests sent in this run, in order
    response                \* what the last request came back with (none once parsed)

vars ==
    <<input, input_water_details, idx, pc, dom, parsed_water_details,
      relationships, pos, db, calls, panicAt, faults, run, prevDb,
      dbBefore, passed, clean, arg, result, requests, response, row_datas>>

NoDom == Element("none", <<>>)
EmptyMap == <<>>

\* Sequences over S of length 0..n.
SeqsUpTo(S, n) == UNION {[1..k -> S] : k \in 0..n}

\* The state before the crawl loop starts on the rows of csv.
InitCrawl(csv) ==
    /\ input = csv
    /\ input_water_details = input
    /\ idx = 1
    /\ parsed_water_details = EmptyMap
    /\ relationships = <<>>
    /\ pos = 1
    /\ db = EmptyDb
    /\ calls = <<>>
    /\ panicAt = "none"
    /\ faults = 0
    /\ run = 1
    /\ prevDb = EmptyDb
    /\ dbBefore = EmptyDb
    /\ passed = {}
    /\ clean = TRUE
    /\ requests = <<>>
    /\ response = NoResponse
    /\ row_datas = <<>>

Init ==
    /\ \E csv \in SeqsUpTo(SeedRows, MaxSeeds) : InitCrawl(csv)
    /\ pc = "request"
    /\ dom = NoDom
    /\ arg = <<>>
    /\ result = NoTable

detail == input_water_details[idx]

Finished == pc = "request" /\ idx > Len(input_water_details)

\* The failures the store may show at the next call.
Faults == {"none"} \cup (IF faults < MaxFaults /\ run = 1 THEN FaultKinds ELSE {})

Call(op, a, out) == [op |-> op, arg |-> a, res |-> out.res]

Panic(at) ==
    /\ pc' = "panicked"
    /\ panicAt' = at

\* The iteration of the crawl loop is over: the pass-local values are dropped.
EndIteration ==
    /\ idx' = idx + 1
    /\ pc' = "request"
    /\ dom' = NoDom
    /\ parsed_water_details' = EmptyMap
    /\ relationships' = <<>>
    /\ row_datas' = <<>>
    /\ pos' = 1
    /\ calls' = <<>>

(***************************************************************************)
(* Steps of main's crawl loop                                              *)
(***************************************************************************)

\* minreq::get(&url).send(): a failed request and a status outside 200..299
\* are logged and the loop goes on; else the page is parsed.
SendRequest ==
    /\ UNCHANGED <<arg, result>>
    /\ pc = "request"
    /\ idx <= Len(input_water_details)
    /\ requests' = Append(requests, [row |-> idx, ws_number |-> detail.ws_number])
    /\ dbBefore' = db
    /\ \E r \in Responses :
        /\ response' = r
        /\ IF r.kind = "Ok" /\ ~StatusNotOk(r.status_code)
           THEN /\ dom' = PageOf(detail)
                /\ pc' = "scrape"
                /\ UNCHANGED <<idx, parsed_water_details, relationships, row_datas,
                               pos, calls, clean>>
           ELSE /\ EndIteration
                /\ clean' = FALSE
    /\ UNCHANGED <<input, input_water_details, db, panicAt, faults, run, prevDb, passed>>

\* The name scraped for the seed.
ScrapedName(d, page) ==
    IF d.name.some THEN d.name
    ELSE LET info_table == get_table_by_name(sInfoCaption, page) IN
         IF info_table # NoTable
         THEN get_value_from_header(sNameLabel, info_table)
         ELSE d.name

\* The body of the response is parsed (its last use), the name is scraped
\* into the seed, and the seed's detail enters parsed_water_details under
\* detail.name.clone().unwrap().
ScrapeName ==
    /\ UNCHANGED <<arg, result, requests, row_datas>>
    /\ pc = "scrape"
    /\ response' = NoResponse
    /\ LET named == [detail EXCEPT !.name = ScrapedName(detail, dom)] IN
        /\ input_water_details' = [input_water_details EXCEPT ![idx] = named]
        /\ IF named.name.some
           THEN /\ parsed_water_details' = MapInsert(EmptyMap, RootKey(named), named)
                /\ pc' = "insert_root"
                /\ UNCHANGED panicAt
           ELSE /\ Panic("name_unwrap")
                /\ UNCHANGED parsed_water_details
    /\ UNCHANGED <<input, idx, dom, relationships, pos, db, calls, faults, run,
                   prevDb, dbBefore, passed, clean>>

\* insert_water_detail(&root_water_detail), a failure being logged.
InsertRoot ==
    /\ UNCHANGED <<arg, result, requests, response, row_datas>>
    /\ pc = "insert_root"
    /\ \E fault \in Faults :
        LET out == insert_water_detail(db, detail, fault) IN
        /\ faults' = IF fault = "none" THEN faults ELSE faults + 1
        /\ clean' = (clean /\ fault = "none")
        /\ db' = out.db
        /\ IF out.panic
           THEN Panic(out.at) /\ UNCHANGED calls
           ELSE /\ calls' = Append(calls, Call("water_detail", detail, out))
                /\ pc' = "tokenize"
                /\ UNCHANGED panicAt
    /\ UNCHANGED <<input, input_water_details, idx, dom, parsed_water_details,
                   relationships, pos, run, prevDb, dbBefore, passed>>

\* The buyers table is looked up and its rows are tokenized; without the
\* table the iteration ends.
TokenizeBuyers ==
    /\ UNCHANGED <<arg, result, requests, response>>
    /\ pc = "tokenize"
    /\ LET wbt == get_table_by_name(sBuyersCaption, dom) IN
        IF wbt # NoTable
        THEN /\ relationships' = BuildRelationships(detail, SelectCells(wbt))
             /\ row_datas' = FieldLists(SelectCells(wbt))
             /\ pos' = 1
             /\ pc' = "details"
        ELSE /\ pc' = "finish"
             /\ UNCHANGED <<relationships, row_datas, pos>>
    /\ UNCHANGED <<input, input_water_details, idx, dom, parsed_water_details,
                   db, calls, panicAt, faults, run, prevDb, dbBefore, passed, clean>>

\* One turn of the first loop over relationships: a buyer not found in
\* parsed_water_details is synthesized, registered and inserted.
InsertBuyerDetail ==
    /\ UNCHANGED <<arg, result, requests, response, row_datas>>
    /\ pc = "details"
    /\ pos <= Len(relationships)
    /\ LET r == relationships[pos] IN
        IF r.buyer \in DOMAIN parsed_water_details
        THEN /\ pos' = pos + 1
             /\ UNCHANGED <<pc, parsed_water_details, db, calls, panicAt, faults, clean>>
        ELSE IF ~CanSlice2(r.buyer)
        THEN /\ Panic("buyer_slice")
             /\ UNCHANGED <<pos, parsed_water_details, db, calls, faults, clean>>
        ELSE \E fault \in Faults :
            LET wd == SynthesizedDetail(r)
                out == insert_water_detail(db, wd, fault) IN
            /\ parsed_water_details' = MapInsert(parsed_water_details, wd.ws_number, wd)
            /\ faults' = IF fault = "none" THEN faults ELSE faults + 1
            /\ clean' = (clean /\ fault = "none")
            /\ db' = out.db
            /\ IF out.panic
               THEN Panic(out.at) /\ UNCHANGED <<calls, pos>>
               ELSE /\ calls' = Append(calls, Call("water_detail", wd, out))
                    /\ pos' = pos + 1
                    /\ UNCHANGED <<pc, panicAt>>
    /\ UNCHANGED <<input, input_water_details, idx, dom, relationships, run,
                   prevDb, dbBefore, passed>>

\* The first loop is over: the second loop starts.
StartRelationships ==
    /\ UNCHANGED <<arg, result, requests, response, row_datas>>
    /\ pc = "details"
    /\ pos > Len(relationships)
    /\ pc' = "relationships"
    /\ pos' = 1
    /\ UNCHANGED <<input, input_water_details, idx, dom, parsed_water_details,
                   relationships, db, calls, panicAt, faults, run, prevDb,
                   dbBefore, passed, clean>>

\* One turn of the second loop: insert_buyer_seller_relationship(r).
InsertRelationship ==
    /\ UNCHANGED <<arg, result, requests, response, row_datas>>
    /\ pc = "relationships"
    /\ pos <= Len(relationships)
    /\ \E fault \in Faults :
        LET r == relationships[pos]
            out == insert_buyer_seller_relationship(db, r, fault) IN
        /\ faults' = IF fault = "none" THEN faults ELSE faults + 1
        /\ clean' = (clean /\ fault = "none")
        /\ db' = out.db
        /\ IF out.panic
           THEN Panic(out.at) /\ UNCHANGED <<calls, pos>>
           ELSE /\ calls' = Append(calls, Call("relationship", r, out))
                /\ pos' = pos + 1
                /\ UNCHANGED <<pc, panicAt>>
    /\ UNCHANGED <<input, input_water_details, idx, dom, parsed_water_details,
                   relationships, run, prevDb, dbBefore, passed>>

\* The second loop is over.
EndRelationships ==
    /\ UNCHANGED <<arg, result, requests, response, row_datas>>
    /\ pc = "relationships"
    /\ pos > Len(relationships)
    /\ pc' = "finish"
    /\ UNCHANGED <<input, input_water_details, idx, dom, parsed_water_details,
                   relationships, pos, db, calls, panicAt, faults, run, prevDb,
                   dbBefore, passed, clean>>

\* The iteration ends and the loop moves to the next seed.
FinishSeed ==
    /\ UNCHANGED <<arg, result, requests, response>>
    /\ pc = "finish"
    /\ EndIteration
    /\ passed' = passed \cup {input[idx]}
    /\ UNCHANGED <<input, input_water_details, db, panicAt, faults, run, prevDb,
                   dbBefore, clean>>

Reorder(rows, p) == [i \in 1..Len(rows) |-> rows[p[i]]]

\* The program is run again on an empty store with the rows of the csv in
\* another order (after a first run in which nothing failed).
RunOtherOrder ==
    /\ UNCHANGED <<arg, result>>
    /\ Finished
    /\ run = 1
    /\ clean
    /\ \E p \in Permutations(1..Len(input)) :
        /\ Reorder(input, p) # input
        /\ input' = Reorder(input, p)
    /\ input_water_details' = input'
    /\ idx' = 1
    /\ run' = 2
    /\ prevDb' = db
    /\ db' = EmptyDb
    /\ dbBefore' = EmptyDb
    /\ passed' = {}
    /\ requests' = <<>>
    /\ response' = NoResponse
    /\ UNCHANGED row_datas
    /\ UNCHANGED <<pc, dom, parsed_water_details, relationships, pos, calls,
                   panicAt, faults, clean>>

Next ==
    \/ SendRequest
    \/ ScrapeName
    \/ InsertRoot
    \/ TokenizeBuyers
    \/ InsertBuyerDetail
    \/ StartRelationships
    \/ InsertRelationship
    \/ EndRelationships
    \/ FinishSeed
    \/ RunOtherOrder

Spec == Init /\ [][Next]_vars
(***************************************************************************)
(* Properties of the crawl                                                 *)
(***************************************************************************)

\* The positions at which a pass over a fetched page is under way or has
\* just ended.
InPass == pc \in {"scrape", "insert_root", "tokenize", "details", "relationships", "finish"}

\* The current seed's page was already processed earlier in this run.
SecondPass == InPass /\ input[idx] \in passed

\* C1: while the store itself does not fail, a pass over a page that was
\* already processed in this run leaves the stored system rows and
\* relationship rows exactly as it found them, and every insert it makes
\* returns Err (already exists): no record is inserted.
C1_SecondPassChangesNothing ==
    (SecondPass /\ faults = 0) =>
        /\ db = dbBefore
        /\ \A i \in 1..Len(calls) : calls[i].res = "Err"

\* A second pass over a page with buyers has ended: the seed, a buyer and a
\* relationship were all offered to the store again.
C1_Witness ==
    /\ SecondPass
    /\ faults = 0
    /\ pc = "finish"
    /\ \E i, j \in 1..Len(calls) :
        /\ i > 1
        /\ calls[i].op = "water_detail"
        /\ calls[j].op = "relationship"

\* C2: after the same csv rows have been processed in two different orders
\* (nothing having failed in either run), the two stores hold the same
\* system rows and the same relationship rows.
C2_OrderIndependent ==
    (run = 2 /\ Finished /\ clean) => db = prevDb

\* C3: a page fetched with status 2xx that lacks the detail table, the name
\* label or the buyers table does not end the run, and a page without the
\* buyers table adds no relationship.
C3_ExtractionMissNotFatal ==
    /\ panicAt # "name_unwrap"
    /\ (pc = "finish" /\ get_table_by_name(sBuyersCaption, dom) = NoTable)
         => db.relationships = dbBefore.relationships

\* C4: a failure of the store, the failure to open it or to prepare the
\* statement included, comes back as an error value and does not end the run.
C4_StoreFailureNotFatal ==
    panicAt \notin {"open_unwrap", "prepare_unwrap"}

\* The padded field lists of the rows of the buyers table of the current
\* page that yield a field, in document order.
CurrentFieldLists == row_datas

HasRelationships == pc \in {"details", "relationships", "finish"} /\ relationships # <<>>

\* The relationship calls of the pass, in order.
RelationshipCalls == SelectSeq(calls, LAMBDA c : c.op = "relationship")

C9_OneAttemptPerSystem ==
    \A i, j \in 1..Len(calls) :
        (i < j /\ calls[i].op = "water_detail" /\ calls[j].op = "water_detail")
            => calls[i].arg.ws_number # calls[j].arg.ws_number

\* C10: every tokenized row whose buyer was not yet seen in the pass gets a
\* synthesized system (ws_number the buyer, state code its first two
\* characters, name the buyer_name, no is_number), and the pass goes on to
\* the next row: the synthesis never ends the run.
C10_SynthesisContinues ==
    /\ panicAt # "buyer_slice"
    /\ \A i \in 2..Len(calls) :
        calls[i].op = "water_detail" =>
            /\ \E k \in 1..Len(relationships) :
                /\ calls[i].arg.ws_number = relationships[k].buyer
                /\ calls[i].arg.name = Some(relationships[k].buyer_name)
            /\ calls[i].arg.st_code = SubSeq(calls[i].arg.ws_number, 1, 2)
            /\ Len(calls[i].arg.st_code) = 2
            /\ calls[i].arg.is_number = None

\* The last request failed, or its response had a status outside 200..299.
FetchFailed ==
    /\ requests # <<>>
    /\ \/ response.kind = "Err"
       \/ response.kind = "Ok" /\ response.status_code \notin 200..299

\* C11: the requests sent so far are for the rows of the input in input
\* order, one request per row, and a run whose loop has ended has sent one
\* for every row. When the request for a seed fails or its response has a
\* status outside 200..299, nothing is written for that seed (the store is
\* as the iteration found it), the run has not ended, and the loop stands
\* at the next row, whose request can be sent.
C11_FetchFailureSkipsSeed ==
    /\ Len(requests) <= Len(input)
    /\ \A i \in 1..Len(requests) :
        /\ requests[i].row = i
        /\ requests[i].ws_number = input[i].ws_number
    /\ Finished => Len(requests) = Len(input)
    /\ FetchFailed =>
        /\ pc = "request"
        /\ panicAt = "none"
        /\ db = dbBefore
        /\ calls = <<>>
        /\ idx = Len(requests) + 1
        /\ idx <= Len(input) => ENABLED SendRequest

\* The second of three seeds came back with status 300 after the first
\* seed's page had been stored: the store is not empty and the third seed
\* is next.
C11_Witness ==
    /\ FetchFailed
    /\ response.status_code = 300
    /\ Len(requests) = 2
    /\ Len(input) = 3
    /\ db # EmptyDb

(***************************************************************************)
(* The lookups and the tokenizer applied to generated documents            *)
(***************************************************************************)

\* Most tables of a generated page, and most texts in a cell of each.
MaxTables == 2
MaxCaptionTexts == 1
\* Most cells of a generated table scanned for a label, and most texts in each.
MaxCells == 2
MaxCellTexts == 1
\* Most rows of a generated buyers table, and most texts in each.
MaxRows == 2
MaxRowTexts == 1

TextNodes(ts) == [i \in 1..Len(ts) |-> TextNode(ts[i])]

\* The other variables while a lookup or the tokenizer is applied on its own.
InitApplied(position, document, name) ==
    /\ InitCrawl(<<InputDetail(sTX1, sTX, <<"1">>)>>)
    /\ pc = position
    /\ dom = document
    /\ arg = name
    /\ result = NoTable

UnchangedCrawl ==
    UNCHANGED <<input, input_water_details, idx, dom, parsed_water_details,
                pos, db, calls, panicAt, faults, run, prevDb, dbBefore,
                passed, clean, arg, requests, response>>

\* -- get_table_by_name ---------------------------------------------------

\* First texts of generated tables: blank, the caption with whitespace
\* around it, the caption with a run of whitespace inside it.
CaptionTexts == { <<" ">>, <<" ", "A", " ", "B", "\n">>, <<"A", " ", " ", "B">> }
Captions == { <<"A", " ", "B">>, <<"A", " ", " ", "B">> }

\* Tables one after the other in the layout cell.
SiblingTables(tss) ==
    [i \in 1..Len(tss) |-> Element("table", <<Element("td", TextNodes(tss[i]))>>)]

\* Tables each nested in the cell of the one before, after its texts.
RECURSIVE NestedTables(_)
NestedTables(tss) ==
    IF tss = <<>> THEN <<>>
    ELSE <<Element("table",
                   <<Element("td", TextNodes(Head(tss)) \o NestedTables(Tail(tss)))>>)>>

\* A page whose layout cell is a td or a th.
LayoutPage(cell, tables) ==
    Element("body", <<Element("table", <<Element(cell, tables)>>)>>)

LocateDocs ==
    { LayoutPage(cell, SiblingTables(tss)) :
        cell \in {"td", "th"},
        tss \in SeqsUpTo(SeqsUpTo(CaptionTexts, MaxCaptionTexts), MaxTables) }
    \cup
    { LayoutPage(cell, NestedTables(tss)) :
        cell \in {"td", "th"},
        tss \in SeqsUpTo(SeqsUpTo(CaptionTexts, MaxCaptionTexts), MaxTables) }

InitLocate ==
    \E document \in LocateDocs, name \in Captions :
        InitApplied("locate", document, name)

LocateTable ==
    /\ pc = "locate"
    /\ result' = get_table_by_name(arg, dom)
    /\ pc' = "located"
    /\ UNCHANGED <<relationships, row_datas>>
    /\ UnchangedCrawl

NextLocate == LocateTable

SpecLocate == InitLocate /\ [][NextLocate]_vars

\* -- get_value_from_header -----------------------------------------------

\* Texts of generated cells: blank, the label with whitespace around and a
\* run of whitespace inside it, a value.
HeaderTexts == { <<" ">>, <<"\n", "L", " ", " ", "M", " ">>, <<"V">> }
Labels == { <<"L", " ", "M">> }

HeaderCells ==
    { Element(cell, TextNodes(ts)) :
        cell \in {"td", "th"}, ts \in SeqsUpTo(HeaderTexts, MaxCellTexts) }

\* The cells one after the other, or each in a table nested in the cell
\* before it, after that cell's texts.
RECURSIVE NestCells(_)
NestCells(cells) ==
    IF Len(cells) <= 1 THEN cells
    ELSE <<[Head(cells) EXCEPT
              !.kids = @ \o <<Element("table", NestCells(Tail(cells)))>>]>>

HeaderTables ==
    { Element("table", cells) : cells \in SeqsUpTo(HeaderCells, MaxCells) }
    \cup
    { Element("table", NestCells(cells)) : cells \in SeqsUpTo(HeaderCells, MaxCells) }

InitHeader ==
    \E table \in HeaderTables, name \in Labels :
        InitApplied("scan", table, name)

ScanTable ==
    /\ pc = "scan"
    /\ result' = get_value_from_header(arg, dom)
    /\ pc' = "scanned"
    /\ UNCHANGED <<relationships, row_datas>>
    /\ UnchangedCrawl

NextHeader == ScanTable

SpecHeader == InitHeader /\ [][NextHeader]_vars

\* -- the row tokenizer ---------------------------------------------------

sRow5 == <<"T", "X", "1", " ", "s", "e", "l", "l", "s", "\n", "t", "o", " ", "B", "/", "T", "X", "2", "/", "5", "/", "Y">>
sRow2 == <<"T", "X", "5", " ", "s", "e", "l", "l", "s", " ", "t", "o", " ", "F">>

sRow6 == <<"A", " ", "-", " ", "B", "/", "C", " ", "-", " ", "D", "/", "E", " ", "-", " ", "F">>

\* Texts of generated rows: blank, a bare delimiter, five fields, two
\* fields, six fields, one field.
RowTexts == { <<" ">>, <<" ", "-", " ">>, sRow5, sRow2, sRow6, <<"X">> }

RowTables ==
    { Element("table", [i \in 1..Len(rows) |-> Element("td", TextNodes(rows[i]))]) :
        rows \in SeqsUpTo(SeqsUpTo(RowTexts, MaxRowTexts), MaxRows) }

InitRows ==
    \E table \in RowTables : InitApplied("tokenize_rows", table, <<>>)

TokenizeRows ==
    /\ pc = "tokenize_rows"
    /\ relationships' = BuildRelationships(detail, SelectCells(dom))
    /\ row_datas' = FieldLists(SelectCells(dom))
    /\ pc' = "tokenized"
    /\ UNCHANGED result
    /\ UnchangedCrawl

NextRows == TokenizeRows

SpecRows == InitRows /\ [][NextRows]_vars

(***************************************************************************)
(* Properties of the lookups and of the tokenizer                          *)
(***************************************************************************)

\* The first non-blank text below an element, as it stands in the page.
FirstToken(el) ==
    LET ts == Texts(el)
        at == {i \in 1..Len(ts) : ~IsBlank(ts[i])} IN
    IF at = {} THEN None
    ELSE Some(ts[CHOOSE i \in at : \A j \in at : i <= j])

NormalizedEquals(el) ==
    FirstToken(el).some /\ Trim(CollapseWs(FirstToken(el).val)) = arg

TrimmedEquals(el) ==
    FirstToken(el).some /\ Trim(FirstToken(el).val) = arg

\* The tables of the page that lie in a td, in document order.
Candidates == SelectTables(dom, FALSE)

\* result is the first candidate among those at the positions hits, and no
\* table exactly when there is none.
IsFirstOf(hits) ==
    IF hits = {} THEN result = NoTable
    ELSE /\ result # NoTable
         /\ result = Candidates[CHOOSE i \in hits : \A j \in hits : i <= j]

NormalizedTokens(el) ==
    LET ts == NonBlank(Texts(el)) IN
    [i \in 1..Len(ts) |-> CollapseWs(Trim(ts[i]))]

\* C7: the value returned is the non-blank text that follows, in document
\* order, the first text of the table equal to the label once normalized;
\* none is returned exactly when the label does not occur or occurs only as
\* the last non-blank text of the table.
C7_ValueFollowsLabel ==
    pc = "scanned" =>
        LET toks == NormalizedTokens(dom)
            hits == {i \in 1..Len(toks) : toks[i] = arg}
            first == CHOOSE i \in hits : \A j \in hits : i <= j IN
        IF hits = {} \/ first = Len(toks) THEN result = None
        ELSE result = Some(toks[first + 1])

Fields(r) == <<r.seller, r.buyer_name, r.buyer, r.population, r.availability>>

\* The cells of the table from which at least one field is recovered.
KeptRows == SelectSeq(SelectCells(dom), LAMBDA row : RowData(row) # <<>>)

\* C8: the tokenizer produces one record per row that yields a field and
\* none for the others; each record has exactly the five fields seller,
\* buyer_name, buyer, population, availability, which are the first five
\* recovered fields in order, the missing ones being empty strings and the
\* fields after the fifth dropped.
C8_FiveFields ==
    pc = "tokenized" =>
        LET kept == KeptRows IN
        /\ Len(relationships) = Len(kept)
        /\ \A k \in 1..Len(relationships) :
            LET recovered == RowData(kept[k])
                fields == Fields(relationships[k]) IN
            /\ DOMAIN relationships[k] =
                 {"seller", "buyer_name", "buyer", "population", "availability"}
            /\ \A i \in 1..5 :
                 fields[i] = IF i <= Len(recovered) THEN recovered[i] ELSE <<>>
            /\ \A i \in 1..Len(recovered) : ~IsBlank(recovered[i])
            /\ Texts(kept[k]) = <<sRow5>> =>
                 fields = <<sTX1, <<"B">>, sTX2, <<"5">>, <<"Y">>>>
            /\ Texts(kept[k]) = <<sRow2>> =>
                 fields = <<sTX5, <<"F">>, <<>>, <<>>, <<>>>>
            /\ Texts(kept[k]) = <<sRow6>> =>
                 fields = <<<<"A">>, <<"B">>, <<"C">>, <<"D">>, <<"E">>>>

\* A table with a row yielding nothing, a row with two recovered fields and
\* so an empty population and availability, was tokenized.
C8_Witness ==
    /\ pc = "tokenized"
    /\ Len(relationships) < Len(SelectCells(dom))
    /\ \E k \in 1..Len(relationships) :
        /\ Len(RowData(KeptRows[k])) = 2
        /\ relationships[k].population = <<>>
        /\ relationships[k].availability = <<>>
====
